---- MODULE Spec2Model ----
(***************************************************************************)
(* Model of libattribute: the attribute schema (model.rs), the duplicate   *)
(* policy (compile_error.rs) and the matcher (model_checker.rs).           *)
(*                                                                         *)
(* Encoding of the Rust values:                                            *)
(*   Option<T>      None is << >>, Some(v) is <<v>>                        *)
(*   ()             << >>                                                  *)
(*   Span           a tuple of naturals (a position path), DUMMY_SP is     *)
(*                  the empty tuple                                        *)
(*   ExtCtxt        the sequence of diagnostics it has been handed, in     *)
(*                  the order span_err / span_warn / span_note were called *)
(*   format!(..)    the tuple of the pieces it concatenates                *)
(*   literal payloads are opaque tokens: the code moves them, it never     *)
(*   inspects them                                                         *)
(***************************************************************************)
EXTENDS Integers, Sequences, FiniteSets, TLC

None == << >>
Some(v) == <<v>>
Unit == << >>

DUMMY_SP == << >>

(***************************************************************************)
(* compile_error.rs                                                        *)
(***************************************************************************)
CompileErrorLevel == {"Silent", "Warn", "Error"}

span_err(cx, span, msg) == Append(cx, [kind |-> "error", span |-> span, msg |-> msg])
span_warn(cx, span, msg) == Append(cx, [kind |-> "warning", span |-> span, msg |-> msg])
span_note(cx, span, msg) == Append(cx, [kind |-> "note", span |-> span, msg |-> msg])

\* CompileErrorLevel::issue
level_issue(level, cx, span, msg) ==
  CASE level = "Silent" -> cx
    [] level = "Warn" -> span_warn(cx, span, msg)
    [] level = "Error" -> span_err(cx, span, msg)

is_silent(level) == level = "Silent"

is_error(level) == level = "Error"

\* DuplicateAttribute::new
DuplicateAttribute(level, extra_msg) == [level |-> level, extra_msg |-> extra_msg]

\* DuplicateAttribute::simple
simple_duplicate(level) == DuplicateAttribute(level, None)

\* DuplicateAttribute::error
error_duplicate(extra_msg) == DuplicateAttribute("Error", Some(extra_msg))

unwrap_or(opt, default) == IF opt = None THEN default ELSE opt[1]

DuplicateMsg(extra_msg) == <<"Duplicate attribute. ", extra_msg>>

PreviousMsg == <<"Previous declaration here.">>

\* issue as it would be if the note did not depend on the level
issue_note_always(self, cx, span, previous_span) ==
  LET extra_msg == unwrap_or(self.extra_msg, "")
      cx1 == level_issue(self.level, cx, span, DuplicateMsg(extra_msg))
  IN  [cx |-> span_note(cx1, previous_span, PreviousMsg), ret |-> is_error(self.level)]

\* DuplicateAttribute::issue: the diagnostics appended to cx and the value returned
issue(self, cx, span, previous_span) ==
  LET extra_msg == unwrap_or(self.extra_msg, "")
      cx1 == level_issue(self.level, cx, span, DuplicateMsg(extra_msg))
      cx2 == IF ~is_silent(self.level) THEN span_note(cx1, previous_span, PreviousMsg)
             ELSE cx1
  IN  [cx |-> cx2, ret |-> is_error(self.level)]

(***************************************************************************)
(* model.rs: value slot                                                    *)
(***************************************************************************)
\* AttributeValue::new
AttributeValue(duplicate) == [value |-> None, duplicate |-> duplicate, span |-> DUMMY_SP]

\* AttributeValue::simple
simple_value == AttributeValue(simple_duplicate("Warn"))

has_value(self) == self.value # None

\* update as it would be if a second write were adopted after being reported
update_overwrite(self, cx, value, span) ==
  [this |-> [self EXCEPT !.value = Some(value), !.span = span],
   cx |-> IF has_value(self) THEN issue(self.duplicate, cx, self.span, span).cx ELSE cx]

\* AttributeValue::update: the slot returned and the context after the call
update(self, cx, value, span) ==
  IF has_value(self)
  THEN [this |-> self, cx |-> issue(self.duplicate, cx, self.span, span).cx]
  ELSE [this |-> [self EXCEPT !.value = Some(value), !.span = span], cx |-> cx]

value_or(self, default) == IF self.value = None THEN default ELSE self.value[1]

(***************************************************************************)
(* model.rs: schema                                                        *)
(***************************************************************************)
UnitValue(value) == [tag |-> "UnitValue", value |-> value]
KeyValue(mlit) == [tag |-> "KeyValue", lit |-> mlit]
SubAttribute(array) == [tag |-> "SubAttribute", sub |-> array]

\* AttributeLitModel: the nine variants, each wrapping one slot
MLitKinds ==
  {"MLitStr", "MLitBinary", "MLitByte", "MLitChar", "MLitInt", "MLitFloat",
   "MLitFloatUnsuffixed", "MLitNil", "MLitBool"}

MLit(kind, value) == [tag |-> kind, value |-> value]

\* Lit_ of the host syntax tree, as lit_to_lit_printer enumerates it
LitKinds ==
  {"LitStr", "LitBinary", "LitByte", "LitChar", "LitInt", "LitFloat",
   "LitFloatUnsuffixed", "LitNil", "LitBool"}

\* AttributeInfo::new
AttributeInfo(name, desc, model) == [name |-> name, desc |-> desc, model |-> model]

\* AttributeInfo::simple
simple_info(name, desc) == AttributeInfo(name, desc, UnitValue(simple_value))

(***************************************************************************)
(* model.rs: kind printer                                                  *)
(***************************************************************************)
to_lit_printer(mlit) ==
  CASE mlit.tag = "MLitStr" -> "PLitStr"
    [] mlit.tag = "MLitBinary" -> "PLitBinary"
    [] mlit.tag = "MLitByte" -> "PLitByte"
    [] mlit.tag = "MLitChar" -> "PLitChar"
    [] mlit.tag = "MLitInt" -> "PLitInt"
    [] mlit.tag = "MLitFloat" -> "PLitFloat"
    [] mlit.tag = "MLitFloatUnsuffixed" -> "PLitFloatUnsuffixed"
    [] mlit.tag = "MLitNil" -> "PLitNil"
    [] mlit.tag = "MLitBool" -> "PLitBool"

lit_to_lit_printer(lit) ==
  CASE lit.tag = "LitStr" -> "PLitStr"
    [] lit.tag = "LitBinary" -> "PLitBinary"
    [] lit.tag = "LitByte" -> "PLitByte"
    [] lit.tag = "LitChar" -> "PLitChar"
    [] lit.tag = "LitInt" -> "PLitInt"
    [] lit.tag = "LitFloat" -> "PLitFloat"
    [] lit.tag = "LitFloatUnsuffixed" -> "PLitFloatUnsuffixed"
    [] lit.tag = "LitNil" -> "PLitNil"
    [] lit.tag = "LitBool" -> "PLitBool"

type_to_str(p) ==
  CASE p = "PLitStr" -> "string"
    [] p = "PLitBinary" -> "binary"
    [] p = "PLitByte" -> "byte"
    [] p = "PLitChar" -> "char"
    [] p = "PLitInt" -> "int"
    [] p = "PLitFloat" -> "float"
    [] p = "PLitFloatUnsuffixed" -> "unsuffixed float"
    [] p = "PLitNil" -> "nil"
    [] p = "PLitBool" -> "boolean"

type_example_to_str(p) ==
  CASE p = "PLitStr" -> "\"hello world\""
    [] p = "PLitBinary" -> "0b01010101"
    [] p = "PLitByte" -> "b'9'"
    [] p = "PLitChar" -> "'a'"
    [] p = "PLitInt" -> "38"
    [] p = "PLitFloat" -> "0.01f32"
    [] p = "PLitFloatUnsuffixed" -> "0.1"
    [] p = "PLitNil" -> "()"
    [] p = "PLitBool" -> "true"

(***************************************************************************)
(* model_checker.rs                                                        *)
(***************************************************************************)
\* The format string of lit_mismatch; its back quotes are written as quotes
\* (a TLA+ string cannot hold a back quote).
MismatchMsg(expected, found) ==
  <<"Expected ", type_to_str(expected), " literal (e.g. 'key = ",
    type_example_to_str(expected), "') but got ", type_to_str(found),
    " literal (e.g. 'key = ", type_example_to_str(found), "').">>

\* lit_mismatch as it would be if the two printers were taken in the other order
lit_mismatch_swapped(cx, mlit, lit) ==
  LET mlit_printer == to_lit_printer(mlit)
      lit_printer == lit_to_lit_printer(lit.node)
  IN  [mlit |-> mlit, cx |-> span_err(cx, lit.span, MismatchMsg(lit_printer, mlit_printer))]

\* lit_mismatch: the literal model comes back as it was
lit_mismatch(cx, mlit, lit) ==
  LET mlit_printer == to_lit_printer(mlit)
      lit_printer == lit_to_lit_printer(lit.node)
  IN  [mlit |-> mlit, cx |-> span_err(cx, lit.span, MismatchMsg(mlit_printer, lit_printer))]

\* model_mismatch as it would be if the diagnostic were forgotten
model_mismatch_silent(cx, model, meta_item) == [model |-> model, cx |-> cx]

\* model_mismatch
model_mismatch(cx, model, meta_item) ==
  [model |-> model, cx |-> span_err(cx, meta_item.span, <<"Model mismatch.">>)]

\* unknown_attribute
unknown_attribute(cx, meta_name, span) == span_err(cx, span, <<"Unknown attribute.">>)

\* meta_item_name
meta_item_name(node) == node.name

\* match_value
match_value(cx, value, span) == update(value, cx, Unit, span)

\* The arms of match_lit that pair a literal model with the literal of its
\* kind; (MLitNil, LitNil) is not among them.
LitArm(mlit, node) ==
  \/ mlit.tag = "MLitStr" /\ node.tag = "LitStr"
  \/ mlit.tag = "MLitBinary" /\ node.tag = "LitBinary"
  \/ mlit.tag = "MLitByte" /\ node.tag = "LitByte"
  \/ mlit.tag = "MLitChar" /\ node.tag = "LitChar"
  \/ mlit.tag = "MLitInt" /\ node.tag = "LitInt"
  \/ mlit.tag = "MLitFloat" /\ node.tag = "LitFloat"
  \/ mlit.tag = "MLitFloatUnsuffixed" /\ node.tag = "LitFloatUnsuffixed"
  \/ mlit.tag = "MLitBool" /\ node.tag = "LitBool"

\* match_lit
match_lit(cx, mlit, lit) ==
  LET sp == lit.span IN
  IF LitArm(mlit, lit.node)
  THEN LET r == update(mlit.value, cx, lit.node.val, sp)
       IN  [mlit |-> MLit(mlit.tag, r.this), cx |-> r.cx]
  ELSE lit_mismatch(cx, mlit, lit)

RECURSIVE match_meta_item(_, _, _)
RECURSIVE match_model(_, _, _)
RECURSIVE match_sub_attributes(_, _, _)
RECURSIVE map_infos(_, _, _, _)

\* match_model
match_model(cx, info, meta_item) ==
  LET m == info.model
      node == meta_item.node
      r == CASE m.tag = "UnitValue" /\ node.tag = "MetaWord" ->
                  LET u == match_value(cx, m.value, meta_item.span)
                  IN  [model |-> UnitValue(u.this), cx |-> u.cx]
             [] m.tag = "KeyValue" /\ node.tag = "MetaNameValue" ->
                  LET l == match_lit(cx, m.lit, node.lit)
                  IN  [model |-> KeyValue(l.mlit), cx |-> l.cx]
             [] m.tag = "SubAttribute" /\ node.tag = "MetaList" ->
                  LET s == match_sub_attributes(cx, m.sub, node.list)
                  IN  [model |-> SubAttribute(s.model), cx |-> s.cx]
             [] OTHER -> model_mismatch(cx, m, meta_item)
  IN  [info |-> AttributeInfo(info.name, info.desc, r.model), cx |-> r.cx]

\* The mapping as it would be if it kept only the nodes of the wanted name
map_infos_filter(cx, model, meta_item, i) ==
  IF i > Len(model) THEN [model |-> << >>, cx |-> cx, attr_exists |-> FALSE]
  ELSE LET info == model[i]
           hit == info.name = meta_item_name(meta_item.node)
           h == IF hit THEN match_model(cx, info, meta_item)
                ELSE [info |-> info, cx |-> cx]
           rest == map_infos(h.cx, model, meta_item, i + 1)
       IN  [model |-> (IF hit THEN <<h.info>> ELSE << >>) \o rest.model, cx |-> rest.cx,
            attr_exists |-> hit \/ rest.attr_exists]

\* The mapping as it would be if it collected the nodes last to first
map_infos_reversed(cx, model, meta_item, i) ==
  IF i > Len(model) THEN [model |-> << >>, cx |-> cx, attr_exists |-> FALSE]
  ELSE LET info == model[i]
           hit == info.name = meta_item_name(meta_item.node)
           h == IF hit THEN match_model(cx, info, meta_item)
                ELSE [info |-> info, cx |-> cx]
           rest == map_infos(h.cx, model, meta_item, i + 1)
       IN  [model |-> rest.model \o <<h.info>>, cx |-> rest.cx,
            attr_exists |-> hit \/ rest.attr_exists]

\* The closure mapped over the schema by match_meta_item, applied to the
\* nodes from index i on: the mapped nodes, the context, and attr_exists.
map_infos(cx, model, meta_item, i) ==
  IF i > Len(model) THEN [model |-> << >>, cx |-> cx, attr_exists |-> FALSE]
  ELSE LET info == model[i]
           hit == info.name = meta_item_name(meta_item.node)
           h == IF hit THEN match_model(cx, info, meta_item)
                ELSE [info |-> info, cx |-> cx]
           rest == map_infos(h.cx, model, meta_item, i + 1)
       IN  [model |-> <<h.info>> \o rest.model, cx |-> rest.cx,
            attr_exists |-> hit \/ rest.attr_exists]

\* match_meta_item as it would be if attr_exists were tested the other way round
match_meta_item_inverted(cx, model, meta_item) ==
  LET meta_name == meta_item_name(meta_item.node)
      m == map_infos(cx, model, meta_item, 1)
  IN  [model |-> m.model,
       cx |-> IF m.attr_exists THEN unknown_attribute(m.cx, meta_name, meta_item.span)
              ELSE m.cx]

\* match_meta_item
match_meta_item(cx, model, meta_item) ==
  LET meta_name == meta_item_name(meta_item.node)
      m == map_infos(cx, model, meta_item, 1)
  IN  [model |-> m.model,
       cx |-> IF ~m.attr_exists THEN unknown_attribute(m.cx, meta_name, meta_item.span)
              ELSE m.cx]

\* match_sub_attributes: fold of match_meta_item over the nested list
match_sub_attributes(cx, model, meta_items) ==
  IF meta_items = << >> THEN [model |-> model, cx |-> cx]
  ELSE LET r == match_meta_item(cx, model, Head(meta_items))
       IN  match_sub_attributes(r.cx, r.model, Tail(meta_items))

\* check: an Attribute is modelled by its meta item (attr.node.value)
check(cx, model, attr) == match_meta_item(cx, model, attr)

RECURSIVE check_all(_, _, _)
\* check_all: fold of check over the attributes
check_all(cx, model, attributes) ==
  IF attributes = << >> THEN [model |-> model, cx |-> cx]
  ELSE LET r == check(cx, model, Head(attributes))
       IN  check_all(r.cx, r.model, Tail(attributes))

(***************************************************************************)
(* model.rs: AttributeMerger. assert! and fail! abort the call: an aborted *)
(* call is the record [ok |-> FALSE, cx |-> the context as the abort found *)
(* it], a returned one carries ok |-> TRUE and the result.                 *)
(***************************************************************************)
\* AttributeMerger::new; the ExtCtxt is handed to each operator as cx
AttributeMerger(duplicate) == [duplicate |-> duplicate]

\* fail!(..) and a failed assert!(..)
Aborted(cx) == [ok |-> FALSE, cx |-> cx]

\* merge_value as it would be if an empty first slot took the value of the
\* second and kept its own span
merge_value_unpaired(self, cx, val, val2) ==
  CASE val.value = None -> [this |-> [val EXCEPT !.value = val2.value], cx |-> cx]
    [] val2.value = None -> [this |-> val, cx |-> cx]
    [] OTHER -> [this |-> val, cx |-> issue(self.duplicate, cx, val.span, val2.span).cx]

\* merge_value as it would be if the first slot were always the result
merge_value_first(self, cx, val, val2) ==
  CASE val.value = None -> [this |-> val, cx |-> cx]
    [] val2.value = None -> [this |-> val, cx |-> cx]
    [] OTHER -> [this |-> val, cx |-> issue(self.duplicate, cx, val.span, val2.span).cx]

\* merge_value as it would be if the second slot won when both hold a value
merge_value_second(self, cx, val, val2) ==
  CASE val.value = None -> [this |-> val2, cx |-> cx]
    [] val2.value = None -> [this |-> val, cx |-> cx]
    [] OTHER -> [this |-> val2, cx |-> issue(self.duplicate, cx, val.span, val2.span).cx]

\* AttributeMerger::merge_value
merge_value(self, cx, val, val2) ==
  CASE val.value = None -> [this |-> val2, cx |-> cx]
    [] val2.value = None -> [this |-> val, cx |-> cx]
    [] OTHER -> [this |-> val, cx |-> issue(self.duplicate, cx, val.span, val2.span).cx]

\* merge_lit as it would be if it merged the slots of any two literal models
merge_lit_any(self, cx, lit, lit2) ==
  LET r == merge_value(self, cx, lit.value, lit2.value)
  IN  [ok |-> TRUE, mlit |-> MLit(lit.tag, r.this), cx |-> r.cx]

\* AttributeMerger::merge_lit: the nine arms pair a kind with itself
merge_lit(self, cx, lit, lit2) ==
  IF lit.tag = lit2.tag /\ lit.tag \in MLitKinds
  THEN LET r == merge_value(self, cx, lit.value, lit2.value)
       IN  [ok |-> TRUE, mlit |-> MLit(lit.tag, r.this), cx |-> r.cx]
  ELSE Aborted(cx)

RECURSIVE merge(_, _, _, _)
RECURSIVE merge_sub_attr(_, _, _, _)
RECURSIVE zip_merge(_, _, _, _, _)

\* merge as it would be without its assertion on the names
merge_unnamed(self, cx, info, info2) ==
  LET m == info.model
      m2 == info2.model
  IN  CASE m.tag = "UnitValue" /\ m2.tag = "UnitValue" ->
             LET r == merge_value(self, cx, m.value, m2.value)
             IN  [ok |-> TRUE, info |-> [info EXCEPT !.model = UnitValue(r.this)], cx |-> r.cx]
        [] m.tag = "KeyValue" /\ m2.tag = "KeyValue" ->
             LET r == merge_lit(self, cx, m.lit, m2.lit)
             IN  IF r.ok
                 THEN [ok |-> TRUE, info |-> [info EXCEPT !.model = KeyValue(r.mlit)], cx |-> r.cx]
                 ELSE Aborted(r.cx)
        [] m.tag = "SubAttribute" /\ m2.tag = "SubAttribute" ->
             LET r == merge_sub_attr(self, cx, m.sub, m2.sub)
             IN  IF r.ok
                 THEN [ok |-> TRUE, info |-> [info EXCEPT !.model = SubAttribute(r.model)], cx |-> r.cx]
                 ELSE Aborted(r.cx)
        [] OTHER -> Aborted(cx)

\* AttributeMerger::merge
merge(self, cx, info, info2) ==
  IF info.name # info2.name THEN Aborted(cx)
  ELSE LET m == info.model
           m2 == info2.model
       IN  CASE m.tag = "UnitValue" /\ m2.tag = "UnitValue" ->
                  LET r == merge_value(self, cx, m.value, m2.value)
                  IN  [ok |-> TRUE, info |-> [info EXCEPT !.model = UnitValue(r.this)], cx |-> r.cx]
             [] m.tag = "KeyValue" /\ m2.tag = "KeyValue" ->
                  LET r == merge_lit(self, cx, m.lit, m2.lit)
                  IN  IF r.ok
                      THEN [ok |-> TRUE, info |-> [info EXCEPT !.model = KeyValue(r.mlit)], cx |-> r.cx]
                      ELSE Aborted(r.cx)
             [] m.tag = "SubAttribute" /\ m2.tag = "SubAttribute" ->
                  LET r == merge_sub_attr(self, cx, m.sub, m2.sub)
                  IN  IF r.ok
                      THEN [ok |-> TRUE, info |-> [info EXCEPT !.model = SubAttribute(r.model)], cx |-> r.cx]
                      ELSE Aborted(r.cx)
             [] OTHER -> Aborted(cx)

\* The zip as it would be if each node of sub1 were paired with the node of
\* sub2 that bears its name
zip_merge_by_name(self, cx, sub1, sub2, i) ==
  IF i > Len(sub1) \/ i > Len(sub2) THEN [ok |-> TRUE, model |-> << >>, cx |-> cx]
  ELSE LET js == {j \in 1..Len(sub2) : sub2[j].name = sub1[i].name}
           j == IF js = {} THEN i ELSE CHOOSE k \in js : TRUE
           h == merge(self, cx, sub1[i], sub2[j])
       IN  IF ~h.ok THEN Aborted(h.cx)
           ELSE LET rest == zip_merge(self, h.cx, sub1, sub2, i + 1)
                IN  IF rest.ok
                    THEN [ok |-> TRUE, model |-> <<h.info>> \o rest.model, cx |-> rest.cx]
                    ELSE Aborted(rest.cx)

\* The zip of merge_sub_attr mapped and collected from pair i on: the pairs
\* are merged first to last, and the first merge that aborts ends the call
zip_merge(self, cx, sub1, sub2, i) ==
  IF i > Len(sub1) \/ i > Len(sub2) THEN [ok |-> TRUE, model |-> << >>, cx |-> cx]
  ELSE LET h == merge(self, cx, sub1[i], sub2[i])
       IN  IF ~h.ok THEN Aborted(h.cx)
           ELSE LET rest == zip_merge(self, h.cx, sub1, sub2, i + 1)
                IN  IF rest.ok
                    THEN [ok |-> TRUE, model |-> <<h.info>> \o rest.model, cx |-> rest.cx]
                    ELSE Aborted(rest.cx)

\* merge_sub_attr as it would be if it returned the first nested schema unmerged
merge_sub_attr_first(self, cx, sub1, sub2) ==
  IF Len(sub1) # Len(sub2) THEN Aborted(cx)
  ELSE [ok |-> TRUE, model |-> sub1, cx |-> cx]

\* AttributeMerger::merge_sub_attr
merge_sub_attr(self, cx, sub1, sub2) ==
  IF Len(sub1) # Len(sub2) THEN Aborted(cx)
  ELSE zip_merge(self, cx, sub1, sub2, 1)

(***************************************************************************)
(* Inputs: the raw nodes of the host syntax tree                           *)
(***************************************************************************)
\* The most meta items (nested ones counted) handed to the matcher in one session
MaxItems == 2
\* The literal payloads are the tokens 1..MaxPayload
MaxPayload == 2
\* The spans handed to a direct call of DuplicateAttribute::issue are <<1>>..<<MaxSpan>>
MaxSpan == 2
\* Direct calls of DuplicateAttribute::issue go on while the context holds
\* fewer than MaxDiags diagnostics
MaxDiags == 3

Names == {"flag", "key", "sub", "id"}

\* The literals the sessions of Spec carry: strings and the nil literal
SessionLits ==
  {[tag |-> "LitStr", val |-> v] : v \in 1..MaxPayload} \cup {[tag |-> "LitNil"]}

\* Every literal kind, for the sessions of SpecLit
AllLits ==
  {[tag |-> k, val |-> v] : k \in LitKinds \ {"LitNil"}, v \in 1..MaxPayload}
    \cup {[tag |-> "LitNil"]}

MetaWord(name) == [tag |-> "MetaWord", name |-> name]
MetaNameValue(name, lit) == [tag |-> "MetaNameValue", name |-> name, lit |-> lit]
MetaList(name, list) == [tag |-> "MetaList", name |-> name, list |-> list]

\* A node stands at its place in the source: the i-th attribute of the session
\* at <<i>>, the j-th item of a list at the list's span extended by j, a
\* literal at its item's span extended by 0.
LitSpan(sp) == Append(sp, 0)

RECURSIVE Size(_)
RECURSIVE SizeAll(_)
\* The number of meta items of a node, nested ones counted
Size(item) == IF item.node.tag = "MetaList" THEN 1 + SizeAll(item.node.list) ELSE 1
SizeAll(items) == IF items = << >> THEN 0 ELSE Size(Head(items)) + SizeAll(Tail(items))

RECURSIVE Items(_, _, _)
RECURSIVE Lists(_, _, _, _)
\* The meta items at span sp of at most s items, their literals drawn from lits
Items(sp, s, lits) ==
  IF s < 1 THEN {}
  ELSE {[node |-> MetaWord(nm), span |-> sp] : nm \in Names}
       \cup {[node |-> MetaNameValue(nm, [node |-> l, span |-> LitSpan(sp)]), span |-> sp] :
               nm \in Names, l \in lits}
       \cup {[node |-> MetaList(nm, list), span |-> sp] :
               nm \in Names, list \in Lists(sp, 1, s - 1, lits)}

\* The lists of meta items of at most s items in all, the first at place i under sp
Lists(sp, i, s, lits) ==
  {<< >>} \cup
  UNION {{<<it>> \o rest : rest \in Lists(sp, i + 1, s - Size(it), lits)} :
           it \in Items(Append(sp, i), s, lits)}

(***************************************************************************)
(* The session: a schema is declared once, then check and check_all are    *)
(* called on it, each call consuming the schema the previous one returned. *)
(***************************************************************************)
VARIABLES
  decl,     \* the schema as declared
  model,    \* the schema the last call returned
  other,    \* a second instance of a declared schema, for the merger
  cx,       \* the diagnostics handed to the ExtCtxt so far
  op,       \* the last call and its attributes
  model0,   \* the schema handed to the last call
  cx0,      \* the diagnostics before the last call
  pos,      \* the number of attributes handed over so far
  used      \* the number of meta items handed over so far

vars == <<decl, model, other, cx, op, model0, cx0, pos, used>>

\* The duplicate policies a schema is declared with
Policies ==
  {simple_duplicate(l) : l \in CompileErrorLevel} \cup {error_duplicate("Only once.")}

\* A schema of the three model variants, nested one level
Schema(dup, kind) ==
  << AttributeInfo("flag", "a flag", UnitValue(AttributeValue(dup))),
     AttributeInfo("key", "a key", KeyValue(MLit(kind, AttributeValue(dup)))),
     AttributeInfo("sub", "a list",
       SubAttribute(<< AttributeInfo("id", "an id", KeyValue(MLit(kind, AttributeValue(dup)))) >>)) >>

\* Two instances are declared: schema, and schema2 for the merger
DeclaredTwo(schema, schema2) ==
  /\ decl = schema
  /\ model = schema
  /\ other = schema2
  /\ cx = << >>
  /\ op = [name |-> "declare", attributes |-> << >>]
  /\ model0 = schema
  /\ cx0 = << >>
  /\ pos = 0
  /\ used = 0

Declared(schema) == DeclaredTwo(schema, schema)

Init == \E dup \in Policies, kind \in {"MLitStr", "MLitNil"} : Declared(Schema(dup, kind))

Returned(name, attributes, r) ==
  /\ model' = r.model
  /\ cx' = r.cx
  /\ op' = [name |-> name, attributes |-> attributes]
  /\ model0' = model
  /\ cx0' = cx
  /\ pos' = pos + Len(attributes)
  /\ used' = used + SizeAll(attributes)
  /\ UNCHANGED <<decl, other>>

\* check(cx, model, attr)
Check(attr) == Returned("check", <<attr>>, check(cx, model, attr))

\* check_all(cx, model, attributes)
CheckAll(attributes) == Returned("check_all", attributes, check_all(cx, model, attributes))

RECURSIVE CheckAllOf(_, _)
\* check_all on every list of attributes that extends `attributes` by at most s meta items
CheckAllOf(attributes, s) ==
  \/ CheckAll(attributes)
  \/ \E attr \in Items(<<pos + Len(attributes) + 1>>, s, SessionLits) :
       CheckAllOf(Append(attributes, attr), s - Size(attr))

Next ==
  /\ used < MaxItems
  /\ \/ \E attr \in Items(<<pos + 1>>, MaxItems - used, SessionLits) : Check(attr)
     \/ CheckAllOf(<< >>, MaxItems - used)

Spec == Init /\ [][Next]_vars

(***************************************************************************)
(* SpecLit: sessions on a schema of one key-literal node, declared with    *)
(* each of the nine literal kinds and fed literals of each of the nine.    *)
(***************************************************************************)
LitSchema(kind) == << AttributeInfo("key", "a key", KeyValue(MLit(kind, simple_value))) >>

InitLit == \E kind \in MLitKinds : Declared(LitSchema(kind))

KeyLit(sp, l) == [node |-> MetaNameValue("key", [node |-> l, span |-> LitSpan(sp)]), span |-> sp]

NextLit ==
  /\ used < MaxItems
  /\ \E l \in AllLits : Check(KeyLit(<<pos + 1>>, l))

SpecLit == InitLit /\ [][NextLit]_vars

(***************************************************************************)
(* SpecIssue: DuplicateAttribute::issue called on the context directly     *)
(***************************************************************************)
Spans == {<<i>> : i \in 1..MaxSpan}

\* self.issue(cx, span, previous_span), its return value kept in op
Issue(self, span, previous_span) ==
  LET r == issue(self, cx, span, previous_span) IN
  /\ cx' = r.cx
  /\ op' = [name |-> "issue", attributes |-> << >>, self |-> self, span |-> span,
            previous_span |-> previous_span, ret |-> r.ret]
  /\ model0' = model
  /\ cx0' = cx
  /\ UNCHANGED <<decl, model, other, pos, used>>

NextIssue ==
  /\ Len(cx) < MaxDiags
  /\ \E self \in Policies, span \in Spans, previous_span \in Spans :
       Issue(self, span, previous_span)

SpecIssue == Init /\ [][NextIssue]_vars

(***************************************************************************)
(* SpecMerge: two instances of a declared schema are populated by          *)
(* check_all, and the root of the first is merged with the root of the     *)
(* second or with itself. The second instance is declared with the shape   *)
(* of the first or with a shape that differs from it in one respect.       *)
(***************************************************************************)
Shapes == {"same", "kind", "variant", "reordered", "shorter"}

\* The schema of SpecMerge, with a nested schema of two key-literal nodes;
\* shape says in what the declaration departs from the "same" one: the literal
\* kind of key, the model variant of flag, the order or the length of the
\* nested schema
MergeSchema(dup, kind, shape) ==
  LET slot == AttributeValue(dup)
      id == AttributeInfo("id", "an id", KeyValue(MLit(kind, slot)))
      tag == AttributeInfo("tag", "a tag", KeyValue(MLit(kind, slot)))
      keyKind == IF shape # "kind" THEN kind
                 ELSE IF kind = "MLitStr" THEN "MLitInt" ELSE "MLitStr"
  IN  << AttributeInfo("flag", "a flag",
           IF shape = "variant" THEN KeyValue(MLit(kind, slot)) ELSE UnitValue(slot)),
         AttributeInfo("key", "a key", KeyValue(MLit(keyKind, slot))),
         AttributeInfo("sub", "a list",
           SubAttribute(CASE shape = "reordered" -> <<tag, id>>
                          [] shape = "shorter" -> <<id>>
                          [] OTHER -> <<id, tag>>)) >>

InitMerge ==
  \E dup \in {simple_duplicate("Silent"), simple_duplicate("Warn")}, shape \in Shapes :
    DeclaredTwo(MergeSchema(dup, "MLitStr", "same"), MergeSchema(dup, "MLitStr", shape))

\* The literals of the kind the first instance declares
KindLits == {[tag |-> "LitStr", val |-> v] : v \in 1..MaxPayload}

\* The nodes of the declared names, shapes and literal kind, at span sp, of at
\* most s meta items
MergeItems(sp, s) ==
  IF s < 1 THEN {}
  ELSE {[node |-> MetaWord("flag"), span |-> sp]}
       \cup {[node |-> MetaNameValue("key", [node |-> l, span |-> LitSpan(sp)]), span |-> sp] :
               l \in KindLits}
       \cup (IF s < 2 THEN {}
             ELSE {[node |-> MetaList("sub",
                      <<[node |-> MetaNameValue(nm, [node |-> l, span |-> LitSpan(Append(sp, 1))]),
                         span |-> Append(sp, 1)]>>),
                    span |-> sp] : nm \in {"id", "tag"}, l \in KindLits})

\* merge takes its two nodes by value: the instance handed over as info2 is
\* gone after the call
Moved == << >>

\* check_all has returned r for the schema of the first instance (first = TRUE)
\* or of the second
ReturnedOn(first, attributes, schema, r) ==
  /\ model' = (IF first THEN r.model ELSE model)
  /\ other' = (IF first THEN other ELSE r.model)
  /\ cx' = r.cx
  /\ op' = [name |-> IF first THEN "check_all" ELSE "check_all_other", attributes |-> attributes]
  /\ model0' = schema
  /\ cx0' = cx
  /\ pos' = pos + Len(attributes)
  /\ used' = used + SizeAll(attributes)
  /\ UNCHANGED decl

\* check_all(cx, schema, attributes), schema being one of the two instances
CheckAllOn(first, attributes, schema) ==
  ReturnedOn(first, attributes, schema, check_all(cx, schema, attributes))

RECURSIVE Populate(_, _, _)
\* check_all, on the first instance or on the second, on every non-empty
\* list of nodes that extends `attributes` by at most s meta items
Populate(first, attributes, s) ==
  \/ attributes # << >> /\ CheckAllOn(first, attributes, IF first THEN model ELSE other)
  \/ \E attr \in MergeItems(<<pos + Len(attributes) + 1>>, s) :
       Populate(first, Append(attributes, attr), s - Size(attr))

\* The schema as the nested schema of a root node
Root(schema) == AttributeInfo("root", "the root", SubAttribute(schema))

\* AttributeMerger::new(cx, duplicate).merge(info, info2) on the roots of the
\* first instance and of schema2; the result takes the place of the first
Merged(duplicate, schema2) ==
  LET self == AttributeMerger(duplicate)
      info == Root(model)
      info2 == Root(schema2)
      r == merge(self, cx, info, info2)
  IN  /\ model' = IF r.ok THEN r.info.model.sub ELSE model
      /\ cx' = r.cx
      /\ op' = [name |-> "merge", attributes |-> << >>, self |-> self,
                info |-> info, info2 |-> info2, ok |-> r.ok]
      /\ model0' = model
      /\ cx0' = cx
      /\ UNCHANGED <<decl, pos, used>>

\* merge(info, info2) with info2 the second instance
Merge(duplicate) ==
  /\ other # Moved
  /\ Merged(duplicate, other)
  /\ other' = Moved

\* merge(info.clone(), info)
MergeSelf(duplicate) ==
  /\ Merged(duplicate, model)
  /\ UNCHANGED other

\* The first instance is populated, then the second, then they are merged;
\* the merged schema may be populated further and merged again. An aborted
\* merge ends the session.
NextMerge ==
  \/ /\ used < MaxItems
     /\ \E first \in BOOLEAN :
          /\ first => (op.name \in {"declare", "merge"} /\ (op.name = "merge" => op.ok))
          /\ ~first => (op.name \in {"declare", "check_all"} /\ other # Moved)
          /\ Populate(first, << >>, MaxItems - used)
  \/ /\ op.name # "merge"
     /\ \E duplicate \in Policies : Merge(duplicate) \/ MergeSelf(duplicate)

SpecMerge == InitMerge /\ [][NextMerge]_vars

(***************************************************************************)
(* Observation of the last call                                            *)
(***************************************************************************)
\* The place of the first node called name in schema, 0 if there is none
IndexOf(schema, name) ==
  IF \E i \in 1..Len(schema) : schema[i].name = name
  THEN CHOOSE i \in 1..Len(schema) :
         /\ schema[i].name = name
         /\ \A j \in 1..(i - 1) : schema[j].name # name
  ELSE 0

RECURSIVE SlotsFrom(_, _, _)
\* The slots of schema from node i on, nested ones included, each with the
\* names that lead to it
SlotsFrom(schema, i, path) ==
  IF i > Len(schema) THEN << >>
  ELSE LET info == schema[i]
           here == Append(path, info.name)
           own == CASE info.model.tag = "UnitValue" -> <<[path |-> here, slot |-> info.model.value]>>
                    [] info.model.tag = "KeyValue" -> <<[path |-> here, slot |-> info.model.lit.value]>>
                    [] info.model.tag = "SubAttribute" -> SlotsFrom(info.model.sub, 1, here)
       IN  own \o SlotsFrom(schema, i + 1, path)

SlotsOf(schema) == SlotsFrom(schema, 1, << >>)

RECURSIVE StepsOf(_, _, _)
\* A call on one node is one step of the matcher: the schema before, the node,
\* the schema after. When the node is a list of one item matched against a
\* sub-schema, that item is a step on the sub-schema, and so on inwards.
StepsOf(pre, post, item) ==
  LET i == IndexOf(pre, item.node.name) IN
  {[pre |-> pre, post |-> post, item |-> item]} \cup
  (IF /\ item.node.tag = "MetaList"
      /\ Len(item.node.list) = 1
      /\ i # 0
      /\ Len(post) = Len(pre)
      /\ pre[i].model.tag = "SubAttribute"
      /\ post[i].model.tag = "SubAttribute"
   THEN StepsOf(pre[i].model.sub, post[i].model.sub, item.node.list[1])
   ELSE {})

\* The steps of the last call; their diagnostics are those of the call, cx0 to cx
Steps ==
  IF op.name \in {"check", "check_all"} /\ Len(op.attributes) = 1
  THEN StepsOf(model0, model, op.attributes[1])
  ELSE {}

Known(st) == IndexOf(st.pre, st.item.node.name) # 0

Target(schema, item) == schema[IndexOf(schema, item.node.name)]

\* The slot of a no-value or key-literal node
SlotOf(info) == IF info.model.tag = "UnitValue" THEN info.model.value ELSE info.model.lit.value

\* The step hands its node to AttributeValue::update
Updates(st) ==
  /\ Known(st)
  /\ LET m == Target(st.pre, st.item).model IN
     \/ m.tag = "UnitValue" /\ st.item.node.tag = "MetaWord"
     \/ m.tag = "KeyValue" /\ st.item.node.tag = "MetaNameValue"
          /\ LitArm(m.lit, st.item.node.lit.node)

\* The value and the span a node carries to its slot
Payload(item) ==
  IF item.node.tag = "MetaWord" \/ item.node.lit.node.tag = "LitNil" THEN Unit
  ELSE item.node.lit.node.val

WriteSpan(item) == IF item.node.tag = "MetaWord" THEN item.span ELSE item.node.lit.span

\* The diagnostics of the last call
Emitted == SubSeq(cx, Len(cx0) + 1, Len(cx))

(***************************************************************************)
(* C1. First write wins: a call never changes the value or the span of a   *)
(* slot that held a value before it (so a filled slot stays filled), and   *)
(* an update that finds its slot empty leaves in it the value and the span *)
(* of that write.                                                          *)
(***************************************************************************)
FirstWriteWins ==
  LET before == SlotsOf(model0)
      after == SlotsOf(model)
  IN  /\ Len(after) = Len(before)
      /\ \A i \in 1..Len(before) :
           has_value(before[i].slot) =>
             /\ after[i].slot.value = before[i].slot.value
             /\ after[i].slot.span = before[i].slot.span
      /\ \A st \in Steps :
           Updates(st) /\ ~has_value(SlotOf(Target(st.pre, st.item))) =>
             /\ Len(st.post) = Len(st.pre)
             /\ SlotOf(Target(st.post, st.item)).value = Some(Payload(st.item))
             /\ SlotOf(Target(st.post, st.item)).span = WriteSpan(st.item)

\* A second write, of another value, has reached a filled slot
SecondWriteSeen ==
  \E st \in Steps :
    /\ Updates(st)
    /\ has_value(SlotOf(Target(st.pre, st.item)))
    /\ SlotOf(Target(st.pre, st.item)).value # Some(Payload(st.item))
    /\ SlotOf(Target(st.pre, st.item)).span # WriteSpan(st.item)

\* The literal is of the kind the literal model declares
KindAgrees(mlit, node) == to_lit_printer(mlit) = lit_to_lit_printer(node)

\* The node has the shape the schema node declares
ShapeMatches(info, item) ==
  \/ info.model.tag = "UnitValue" /\ item.node.tag = "MetaWord"
  \/ info.model.tag = "KeyValue" /\ item.node.tag = "MetaNameValue"
       /\ KindAgrees(info.model.lit, item.node.lit.node)
  \/ info.model.tag = "SubAttribute" /\ item.node.tag = "MetaList"

RECURSIVE Clean(_, _)
\* Every node is declared at its level with its shape, and no name repeats
Clean(schema, nodes) ==
  /\ \A i \in 1..Len(nodes) :
       /\ IndexOf(schema, nodes[i].node.name) # 0
       /\ ShapeMatches(Target(schema, nodes[i]), nodes[i])
       /\ nodes[i].node.tag = "MetaList" =>
            Clean(Target(schema, nodes[i]).model.sub, nodes[i].node.list)
  /\ \A i, j \in 1..Len(nodes) : i # j => nodes[i].node.name # nodes[j].node.name

RECURSIVE Holds(_, _)
\* Every node's slot holds the node's value and span
Holds(schema, nodes) ==
  \A i \in 1..Len(nodes) :
    /\ IndexOf(schema, nodes[i].node.name) # 0
    /\ LET info == Target(schema, nodes[i]) IN
       IF nodes[i].node.tag = "MetaList"
       THEN info.model.tag = "SubAttribute" /\ Holds(info.model.sub, nodes[i].node.list)
       ELSE /\ info.model.tag \in {"UnitValue", "KeyValue"}
            /\ SlotOf(info).value = Some(Payload(nodes[i]))
            /\ SlotOf(info).span = WriteSpan(nodes[i])

(***************************************************************************)
(* C2. Clean pass: check_all on the declared schema, with nodes that are   *)
(* all declared at their level, of the declared shape and literal kind,    *)
(* and without a repeated name, emits no diagnostic and leaves in every    *)
(* targeted slot the node's value and span.                                *)
(***************************************************************************)
CleanPass ==
  (op.name = "check_all" /\ model0 = decl /\ Clean(decl, op.attributes)) =>
    (Emitted = << >> /\ Holds(model, op.attributes))

\* The number of diagnostics of one kind in a sequence of diagnostics
Count(diags, kind) == Cardinality({i \in 1..Len(diags) : diags[i].kind = kind})

\* The last call was check_all on the declared schema with two nodes of one
\* name, both of the shape declared for the slot of that name
PairOnSlot ==
  /\ op.name = "check_all"
  /\ model0 = decl
  /\ Len(op.attributes) = 2
  /\ op.attributes[1].node.name = op.attributes[2].node.name
  /\ IndexOf(decl, op.attributes[1].node.name) # 0
  /\ Target(decl, op.attributes[1]).model.tag \in {"UnitValue", "KeyValue"}
  /\ ShapeMatches(Target(decl, op.attributes[1]), op.attributes[1])
  /\ ShapeMatches(Target(decl, op.attributes[2]), op.attributes[2])

(***************************************************************************)
(* C3. Duplicate under Warn: two nodes of one name, both of the declared   *)
(* shape, on a slot whose policy is Warn leave the first node's value in   *)
(* the slot and emit exactly one warning, exactly one note and no error;   *)
(* under Error an error is emitted and the slot holds the first node's     *)
(* value.                                                                  *)
(***************************************************************************)
DuplicatePair ==
  PairOnSlot =>
    LET first == op.attributes[1]
        level == SlotOf(Target(decl, first)).duplicate.level
        slot == SlotOf(Target(model, first))
    IN  /\ level = "Warn" =>
             /\ slot.value = Some(Payload(first))
             /\ Count(Emitted, "warning") = 1
             /\ Count(Emitted, "note") = 1
             /\ Count(Emitted, "error") = 0
        /\ level = "Error" =>
             /\ slot.value = Some(Payload(first))
             /\ Count(Emitted, "error") >= 1

\* The step is a second write to a filled slot whose policy is not Silent
ReportedDuplicate(st) ==
  /\ Updates(st)
  /\ has_value(SlotOf(Target(st.pre, st.item)))
  /\ SlotOf(Target(st.pre, st.item)).duplicate.level # "Silent"

(***************************************************************************)
(* C4. Duplicate span orientation: a write to a filled slot emits the      *)
(* warning or error at the span of the new write and the note at the span  *)
(* of the write that filled the slot.                                      *)
(***************************************************************************)
DuplicateAtNewSpan ==
  \A st \in Steps :
    ReportedDuplicate(st) =>
      /\ Len(Emitted) = 2
      /\ Emitted[1].kind \in {"warning", "error"}
      /\ Emitted[1].span = WriteSpan(st.item)
      /\ Emitted[2].kind = "note"
      /\ Emitted[2].span = SlotOf(Target(st.pre, st.item)).span

(***************************************************************************)
(* C5. DuplicateAttribute::issue emits by severity: nothing at Silent, one *)
(* warning then one note at Warn, one error then one note at Error, and it *)
(* returns true exactly at Error.                                          *)
(***************************************************************************)
IssueBySeverity ==
  op.name = "issue" =>
    /\ op.self.level = "Silent" => Emitted = << >>
    /\ op.self.level = "Warn" =>
         /\ Len(Emitted) = 2
         /\ Emitted[1].kind = "warning"
         /\ Emitted[2].kind = "note"
    /\ op.self.level = "Error" =>
         /\ Len(Emitted) = 2
         /\ Emitted[1].kind = "error"
         /\ Emitted[2].kind = "note"
    /\ op.ret = (op.self.level = "Error")
    /\ model = model0

\* issue has been called at Error on a context that held diagnostics already
IssuedAtError == op.name = "issue" /\ op.self.level = "Error" /\ cx0 # << >> /\ op.ret

\* The step pairs a key-literal node with a name=literal node
LiteralStep(st) ==
  /\ Known(st)
  /\ Target(st.pre, st.item).model.tag = "KeyValue"
  /\ st.item.node.tag = "MetaNameValue"

IsKindMismatch(diag) == diag.kind = "error" /\ diag.msg[1] = "Expected "

(***************************************************************************)
(* C6. Agreeing literal kinds are always consumed: a key-literal node fed  *)
(* a literal of its own kind, whichever of the nine, hands the payload and *)
(* the literal's span to the slot's update (an empty slot is filled with   *)
(* them) and emits no kind-mismatch diagnostic.                            *)
(***************************************************************************)
AgreeingKindConsumed ==
  \A st \in Steps :
    (LiteralStep(st) /\ KindAgrees(Target(st.pre, st.item).model.lit, st.item.node.lit.node)) =>
      LET r == update(SlotOf(Target(st.pre, st.item)), cx0, Payload(st.item), WriteSpan(st.item))
      IN  /\ Len(st.post) = Len(st.pre)
          /\ Target(st.post, st.item).model.tag = "KeyValue"
          /\ SlotOf(Target(st.post, st.item)) = r.this
          /\ cx = r.cx
          /\ \A i \in 1..Len(Emitted) : ~IsKindMismatch(Emitted[i])

(***************************************************************************)
(* C7. Literal kind mismatch: a key-literal node fed a literal of another  *)
(* kind emits exactly one error, at the literal's span, whose message      *)
(* names the declared kind with its example and then the found kind with   *)
(* its example, and the schema node comes back as it was.                  *)
(***************************************************************************)
KindMismatchReported ==
  \A st \in Steps :
    (LiteralStep(st) /\ ~KindAgrees(Target(st.pre, st.item).model.lit, st.item.node.lit.node)) =>
      LET declared == to_lit_printer(Target(st.pre, st.item).model.lit)
          found == lit_to_lit_printer(st.item.node.lit.node)
      IN  /\ Len(Emitted) = 1
          /\ Emitted[1].kind = "error"
          /\ Emitted[1].span = st.item.node.lit.span
          /\ Len(Emitted[1].msg) = 9
          /\ Emitted[1].msg[1] = "Expected "
          /\ Emitted[1].msg[2] = type_to_str(declared)
          /\ Emitted[1].msg[4] = type_example_to_str(declared)
          /\ Emitted[1].msg[6] = type_to_str(found)
          /\ Emitted[1].msg[8] = type_example_to_str(found)
          /\ (declared = "PLitInt" /\ found = "PLitStr") =>
               /\ Emitted[1].msg[2] = "int"
               /\ Emitted[1].msg[4] = "38"
               /\ Emitted[1].msg[6] = "string"
               /\ Emitted[1].msg[8] = "\"hello world\""
          /\ st.post = st.pre

\* A string literal has reached a filled int slot
StringOnFilledInt ==
  \E st \in Steps :
    /\ LiteralStep(st)
    /\ Target(st.pre, st.item).model.lit.tag = "MLitInt"
    /\ st.item.node.lit.node.tag = "LitStr"
    /\ has_value(SlotOf(Target(st.pre, st.item)))

(***************************************************************************)
(* C8. Unknown name: a node whose name no schema node of its level bears   *)
(* emits exactly one error, "Unknown attribute.", at the node's span, and  *)
(* the schema of that level comes back equal in every field.               *)
(***************************************************************************)
UnknownNameReported ==
  \A st \in Steps :
    ~Known(st) =>
      /\ Emitted = <<[kind |-> "error", span |-> st.item.span, msg |-> <<"Unknown attribute.">>]>>
      /\ st.post = st.pre

\* A node of an undeclared name has been met in a nested list
UnknownSeenNested == \E st \in Steps : ~Known(st) /\ st.pre # model0

\* The declared model variant and the node's shape are one of the three pairs
Paired(info, item) ==
  \/ info.model.tag = "UnitValue" /\ item.node.tag = "MetaWord"
  \/ info.model.tag = "KeyValue" /\ item.node.tag = "MetaNameValue"
  \/ info.model.tag = "SubAttribute" /\ item.node.tag = "MetaList"

(***************************************************************************)
(* C9. Model mismatch: a node whose name is declared but whose shape is    *)
(* not the one of the declared model variant emits exactly one error,      *)
(* "Model mismatch.", at the node's span (and no unknown-attribute error), *)
(* and the schema node comes back as it was.                               *)
(***************************************************************************)
ModelMismatchReported ==
  \A st \in Steps :
    (Known(st) /\ ~Paired(Target(st.pre, st.item), st.item)) =>
      /\ Emitted = <<[kind |-> "error", span |-> st.item.span, msg |-> <<"Model mismatch.">>]>>
      /\ st.post = st.pre

\* A node of the wrong shape has been met in a nested list
MismatchSeenNested ==
  \E st \in Steps : Known(st) /\ ~Paired(Target(st.pre, st.item), st.item) /\ st.pre # model0

RECURSIVE Erase(_)
\* The schema with every slot emptied: what it declares
Erase(schema) ==
  [i \in 1..Len(schema) |->
     LET info == schema[i]
         m == info.model
         empty(slot) == [slot EXCEPT !.value = None, !.span = DUMMY_SP]
     IN  [info EXCEPT !.model =
            CASE m.tag = "UnitValue" -> UnitValue(empty(m.value))
              [] m.tag = "KeyValue" -> KeyValue(MLit(m.lit.tag, empty(m.lit.value)))
              [] m.tag = "SubAttribute" -> SubAttribute(Erase(m.sub))]]

(***************************************************************************)
(* C10. Shape preservation: whatever nodes check and check_all are given,  *)
(* the schema keeps its length, its names in their order, the model        *)
(* variant and literal kind of every node, and the same in every nested    *)
(* schema; it differs from the declared schema in slot values and spans    *)
(* only.                                                                   *)
(***************************************************************************)
ShapePreserved == Erase(model) = Erase(decl)

\* A call has changed the schema after an earlier call had raised a diagnostic
FilledAfterDiagnostic ==
  /\ op.name \in {"check", "check_all"}
  /\ model # model0
  /\ cx0 # << >>

(***************************************************************************)
(* C11. Frame of one match step: a step on a schema with one node changes  *)
(* at most the schema nodes whose name is the input node's name; every     *)
(* node of another name comes back equal in every field (model, slot       *)
(* value, span), and the schema keeps its length and its names in their    *)
(* order.                                                                  *)
(***************************************************************************)
OtherNodesUntouched ==
  \A st \in Steps :
    /\ Len(st.post) = Len(st.pre)
    /\ \A i \in 1..Len(st.pre) :
         /\ st.post[i].name = st.pre[i].name
         /\ st.pre[i].name # st.item.node.name => st.post[i] = st.pre[i]

\* A step has changed the node of its name while a node of another name held a value
ChangedBesideFilled ==
  \E st \in Steps :
    /\ Known(st)
    /\ Target(st.post, st.item) # Target(st.pre, st.item)
    /\ \E i \in 1..Len(st.pre) :
         /\ st.pre[i].name # st.item.node.name
         /\ st.pre[i].model.tag \in {"UnitValue", "KeyValue"}
         /\ has_value(SlotOf(st.pre[i]))

RECURSIVE Filled(_, _, _)
\* Every node of the list that is declared at its level with its shape, and
\* that no earlier node of the declared shape precedes under its name, has
\* filled its slot if the slot was empty; the same inside the list of a node
\* that alone bears its name
Filled(pre, post, nodes) ==
  \A i \in 1..Len(nodes) :
    LET nd == nodes[i] IN
    (IndexOf(pre, nd.node.name) # 0 /\ ShapeMatches(Target(pre, nd), nd)) =>
      /\ Len(post) = Len(pre)
      /\ IF nd.node.tag = "MetaList"
         THEN (\A j \in 1..Len(nodes) : j # i => nodes[j].node.name # nd.node.name) =>
                /\ Target(post, nd).model.tag = "SubAttribute"
                /\ Filled(Target(pre, nd).model.sub, Target(post, nd).model.sub, nd.node.list)
         ELSE (/\ \A j \in 1..(i - 1) :
                   nodes[j].node.name = nd.node.name => ~ShapeMatches(Target(pre, nd), nodes[j])
               /\ ~has_value(SlotOf(Target(pre, nd)))) =>
                /\ SlotOf(Target(post, nd)).value = Some(Payload(nd))
                /\ SlotOf(Target(post, nd)).span = WriteSpan(nd)

\* The diagnostics of every prefix of the list open the diagnostics of the list
PrefixOrdered ==
  \A k \in 0..Len(op.attributes) :
    LET r == check_all(cx0, model0, SubSeq(op.attributes, 1, k))
    IN  /\ Len(r.cx) <= Len(cx)
        /\ SubSeq(cx, 1, Len(r.cx)) = r.cx

(***************************************************************************)
(* C12. The walk never stops early: check_all hands every node of its list *)
(* to the matcher, in input order and whatever the earlier nodes raised:   *)
(* a valid node (declared, of the declared shape and literal kind) fills   *)
(* its empty slot whatever unknown, mismatched or duplicate nodes precede  *)
(* it, at the top level and in nested lists, and the diagnostics of the    *)
(* first k nodes come before those of the later nodes, for every k.        *)
(***************************************************************************)
WalkNeverStops ==
  op.name = "check_all" =>
    /\ Filled(model0, model, op.attributes)
    /\ PrefixOrdered

\* The last call was a merge that returned
MergeReturned == op.name = "merge" /\ op.ok

\* The slots of the two schemas handed to the last merge, and of its result
SlotsA == SlotsOf(op.info.model.sub)
SlotsB == SlotsOf(op.info2.model.sub)
SlotsR == SlotsOf(model)

\* The places of the slots that hold a value on both sides
BothFilled ==
  LET A == SlotsA
      B == SlotsB
  IN  {i \in 1..Len(A) : i <= Len(B) /\ has_value(A[i].slot) /\ has_value(B[i].slot)}

\* The number of warnings and errors among the diagnostics
Primary(diags) == Count(diags, "warning") + Count(diags, "error")

\* Slot by slot, the result of the last merge holds the value of the one side
\* that holds one, the first side's value and span when both do, and nothing
\* when neither does
SlotValuesMerged ==
  LET A == SlotsA
      B == SlotsB
      R == SlotsR
  IN  /\ Len(B) = Len(A)
      /\ Len(R) = Len(A)
      /\ \A i \in 1..Len(A) :
           LET a == A[i].slot
               b == B[i].slot
               r == R[i].slot
           IN  /\ (has_value(a) /\ ~has_value(b)) => r.value = a.value
               /\ (~has_value(a) /\ has_value(b)) => r.value = b.value
               /\ (has_value(a) /\ has_value(b)) => (r.value = a.value /\ r.span = a.span)
               /\ (~has_value(a) /\ ~has_value(b)) => r.value = None

(***************************************************************************)
(* C13 as claimed. Slot merge: a slot (of a no-value node or wrapped in a  *)
(* key-literal node) filled on exactly one side comes back with that       *)
(* side's value and raises no diagnostic; filled on both sides it comes    *)
(* back with the first side's value and span and exactly one duplicate is  *)
(* reported; filled on neither it comes back empty without a diagnostic.   *)
(***************************************************************************)
SlotMergeReportsEach ==
  MergeReturned =>
    /\ SlotValuesMerged
    /\ Primary(Emitted) = Cardinality(BothFilled)
    /\ Len(Emitted) = 2 * Cardinality(BothFilled)

(***************************************************************************)
(* C13 amended. Slot merge: the slots come back as claimed, and each slot  *)
(* filled on both sides is handed once to the merger's duplicate policy:   *)
(* one warning or error and one note are emitted for it at Warn and at     *)
(* Error, nothing at Silent; no other slot raises a diagnostic.            *)
(***************************************************************************)
SlotMerge ==
  MergeReturned =>
    /\ SlotValuesMerged
    /\ LET n == IF is_silent(op.self.duplicate.level) THEN 0 ELSE Cardinality(BothFilled)
       IN  /\ Primary(Emitted) = n
           /\ Count(Emitted, "note") = n
           /\ Len(Emitted) = 2 * n

\* Two instances that hold different values in a key-literal slot have been
\* merged under a policy that is not Silent
KeySlotsMerged ==
  /\ MergeReturned
  /\ ~is_silent(op.self.duplicate.level)
  /\ \E i \in BothFilled :
       /\ Len(SlotsA[i].path) = 1
       /\ SlotsA[i].path[1] = "key"
       /\ SlotsA[i].slot.value # SlotsB[i].slot.value

\* The values the slots of a schema hold, in the order of the slots
ValuesOf(schema) ==
  LET slots == SlotsOf(schema) IN [i \in 1..Len(slots) |-> slots[i].slot.value]

\* The last call merged two instances of one declared shape, no slot of which
\* is filled in both
DisjointMerge ==
  /\ op.name = "merge"
  /\ Erase(op.info.model.sub) = Erase(op.info2.model.sub)
  /\ BothFilled = {}

(***************************************************************************)
(* C14. Disjoint merge composition: when two instances of one declared     *)
(* shape, populated by check_all, fill disjoint sets of slots, their merge *)
(* returns, every slot filled in the first holds the first's value, every  *)
(* slot filled in the second holds the second's value, every other slot is *)
(* empty, and no diagnostic is emitted, whatever the merger's policy; the  *)
(* merge taken the other way round returns the same values in the same     *)
(* slots, without a diagnostic either.                                     *)
(***************************************************************************)
DisjointMergeComposes ==
  DisjointMerge =>
    /\ op.ok
    /\ Emitted = << >>
    /\ LET A == SlotsA
           B == SlotsB
           R == SlotsR
       IN  /\ Len(R) = Len(A)
           /\ \A i \in 1..Len(A) :
                R[i].slot.value =
                  IF has_value(A[i].slot) THEN A[i].slot.value
                  ELSE IF has_value(B[i].slot) THEN B[i].slot.value
                  ELSE None
    /\ LET rev == merge(op.self, cx0, op.info2, op.info)
       IN  /\ rev.ok
           /\ rev.cx = cx0
           /\ ValuesOf(rev.info.model.sub) = ValuesOf(model)

\* Two instances that fill different slots have been merged under a policy
\* that is not Silent
DisjointFilledMerged ==
  /\ DisjointMerge
  /\ ~is_silent(op.self.duplicate.level)
  /\ \E i \in 1..Len(SlotsA) : has_value(SlotsA[i].slot)
  /\ \E i \in 1..Len(SlotsB) : has_value(SlotsB[i].slot)

\* The last call merged a node with itself
SelfMerge == op.name = "merge" /\ op.info2 = op.info

\* The places of the slots of the first side that hold a value
Populated == LET A == SlotsA IN {i \in 1..Len(A) : has_value(A[i].slot)}

\* Every slot of the result holds the value and the span it held in the first side
SlotsKept ==
  LET A == SlotsA
      R == SlotsR
  IN  /\ Len(R) = Len(A)
      /\ \A i \in 1..Len(A) :
           /\ R[i].slot.value = A[i].slot.value
           /\ R[i].slot.span = A[i].slot.span

(***************************************************************************)
(* C15 as claimed. Self-merge: the merge of a populated node with itself   *)
(* returns a node whose every slot has the value and span it had, and      *)
(* reports exactly one duplicate note per populated slot, nested slots     *)
(* counted, and none for the empty slots.                                  *)
(***************************************************************************)
SelfMergeNotesEach ==
  SelfMerge =>
    /\ op.ok
    /\ SlotsKept
    /\ Count(Emitted, "note") = Cardinality(Populated)

(***************************************************************************)
(* C15 amended. Self-merge: the merge of a populated node with itself      *)
(* returns a node whose every slot has the value and span it had; when the *)
(* merger's policy is Warn or Error it emits one warning or error and one  *)
(* note per populated slot, nested slots counted, and nothing else; when   *)
(* the merger's policy is Silent it emits nothing.                         *)
(***************************************************************************)
SelfMergeNotesByPolicy ==
  SelfMerge =>
    /\ op.ok
    /\ SlotsKept
    /\ LET n == IF is_silent(op.self.duplicate.level) THEN 0 ELSE Cardinality(Populated)
       IN  /\ Count(Emitted, "note") = n
           /\ Primary(Emitted) = n
           /\ Len(Emitted) = 2 * n

\* A node with a populated nested slot and an empty slot has been merged with
\* itself under a policy that is not Silent
NestedSelfMerged ==
  /\ SelfMerge
  /\ ~is_silent(op.self.duplicate.level)
  /\ \E i \in Populated : Len(SlotsA[i].path) = 2
  /\ \E i \in 1..Len(SlotsA) : ~has_value(SlotsA[i].slot)

(***************************************************************************)
(* C16. Merge reports duplicates with the slot's own duplicate policy:     *)
(* when a merge finds a slot filled on both sides, the duplicate is        *)
(* reported at the level declared for that slot, as a second write by the  *)
(* matcher would: nothing at Silent, warnings and no error at Warn, errors *)
(* and no warning at Error. (All slots of a schema of SpecMerge are        *)
(* declared with one policy.)                                              *)
(***************************************************************************)
MergeBySlotPolicy ==
  MergeReturned =>
    \A i \in BothFilled :
      LET level == SlotsA[i].slot.duplicate.level IN
      /\ level = "Silent" => Emitted = << >>
      /\ level = "Warn" =>
           /\ Count(Emitted, "warning") = Cardinality(BothFilled)
           /\ Count(Emitted, "error") = 0
      /\ level = "Error" =>
           /\ Count(Emitted, "error") = Cardinality(BothFilled)
           /\ Count(Emitted, "warning") = 0

\* The two nodes differ in name, in model variant, in literal kind or in the
\* length of their nested schemas
DirectMismatch(a, b) ==
  \/ a.name # b.name
  \/ a.model.tag # b.model.tag
  \/ a.model.tag = "KeyValue" /\ b.model.tag = "KeyValue" /\ a.model.lit.tag # b.model.lit.tag
  \/ a.model.tag = "SubAttribute" /\ b.model.tag = "SubAttribute"
       /\ Len(a.model.sub) # Len(b.model.sub)

RECURSIVE Fits(_, _)
\* Neither the two nodes nor any two nodes at one place below them mismatch
Fits(a, b) ==
  /\ ~DirectMismatch(a, b)
  /\ a.model.tag = "SubAttribute" =>
       \A i \in 1..Len(a.model.sub) : Fits(a.model.sub[i], b.model.sub[i])

\* The diagnostic is one of the two DuplicateAttribute::issue emits
IsDuplicateDiag(diag) == diag.msg[1] \in {"Duplicate attribute. ", "Previous declaration here."}

(***************************************************************************)
(* C17. Merge of mismatched shapes is fatal: merge(a, b) aborts at once,   *)
(* with no result and the sink as it was, whenever a and b differ in name, *)
(* in model variant, in literal kind or in the length of their nested      *)
(* schemas; a merge of two roots aborts exactly when two nodes at one      *)
(* place below them mismatch so, the first instance is then left as it     *)
(* was, and the sink holds no diagnostic for the mismatch (only the        *)
(* duplicates reported before the abort).                                  *)
(***************************************************************************)
MismatchIsFatal ==
  op.name = "merge" =>
    /\ op.ok = Fits(op.info, op.info2)
    /\ ~op.ok =>
         /\ model = model0
         /\ \A k \in 1..Len(Emitted) : IsDuplicateDiag(Emitted[k])
    /\ \A i \in 1..Len(op.info.model.sub), j \in 1..Len(op.info2.model.sub) :
         LET a == op.info.model.sub[i]
             b == op.info2.model.sub[j]
         IN  DirectMismatch(a, b) => merge(op.self, cx0, a, b) = Aborted(cx0)

\* A merge has aborted on a mismatch of literal kinds after a duplicate had been reported
AbortedAfterDuplicate ==
  /\ op.name = "merge"
  /\ ~op.ok
  /\ Emitted # << >>
  /\ op.info.model.sub[2].model.lit.tag # op.info2.model.sub[2].model.lit.tag

RECURSIVE PairedByPlace(_, _, _, _)
\* r is the nested schema of the merge of two nodes of nested schemas a and b
\* of one length: its i-th node is the merge of the i-th nodes of a and b and
\* bears the name of the i-th node of a; the same in the sub-schema nodes below
PairedByPlace(self, a, b, r) ==
  /\ Len(r) = Len(a)
  /\ \A i \in 1..Len(a) :
       LET m == merge(self, << >>, a[i], b[i]) IN
       /\ m.ok
       /\ r[i] = m.info
       /\ r[i].name = a[i].name
       /\ (a[i].model.tag = "SubAttribute" /\ b[i].model.tag = "SubAttribute"
             /\ r[i].model.tag = "SubAttribute" /\ Len(a[i].model.sub) = Len(b[i].model.sub)) =>
            PairedByPlace(self, a[i].model.sub, b[i].model.sub, r[i].model.sub)

(***************************************************************************)
(* C18. Positional sub-schema merge: the merge of two sub-schema nodes of  *)
(* nested schemas of one length n returns exactly when the merges of the   *)
(* nodes at each place i return, and then yields a nested schema of length *)
(* n whose i-th node is the merge of the i-th node of the first with the   *)
(* i-th node of the second, paired by place and not by name; the result    *)
(* keeps the first's names in their order.                                 *)
(***************************************************************************)
MergedByPlace ==
  (op.name = "merge" /\ Len(op.info.model.sub) = Len(op.info2.model.sub)) =>
    LET a == op.info.model.sub
        b == op.info2.model.sub
    IN  /\ op.ok = (\A i \in 1..Len(a) : merge(op.self, << >>, a[i], b[i]).ok)
        /\ op.ok => PairedByPlace(op.self, a, b, model)

\* A merge has returned a nested slot filled from the second instance alone
NestedFromSecond ==
  /\ MergeReturned
  /\ \E i \in 1..Len(SlotsA) :
       /\ Len(SlotsA[i].path) = 2
       /\ ~has_value(SlotsA[i].slot)
       /\ has_value(SlotsB[i].slot)
       /\ SlotsR[i].slot = SlotsB[i].slot

\* The names of the nodes of a schema, in their order
NamesOf(schema) == [i \in 1..Len(schema) |-> schema[i].name]

\* The two schemas bear the same set of names, in different orders
Reordered(a, b) ==
  /\ {a[i].name : i \in 1..Len(a)} = {b[i].name : i \in 1..Len(b)}
  /\ Len(a) = Len(b)
  /\ NamesOf(a) # NamesOf(b)

\* The nodes of the two sides of the last merge that hold a nested schema
\* at one place
SubPairs ==
  {<<op.info, op.info2>>} \cup
  {<<op.info.model.sub[i], op.info2.model.sub[i]>> :
     i \in {k \in 1..Len(op.info.model.sub) :
              /\ k <= Len(op.info2.model.sub)
              /\ op.info.model.sub[k].model.tag = "SubAttribute"
              /\ op.info2.model.sub[k].model.tag = "SubAttribute"}}

(***************************************************************************)
(* C19. A reordered sub-schema is never merged silently: the merge of two  *)
(* sub-schema nodes whose nested schemas bear the same names in different  *)
(* orders aborts, before anything is reported when the names differ at the *)
(* first place, and so does every merge that contains it; hence in every   *)
(* result a merge returns, the value of each slot is the value of the slot *)
(* reached by the same names in the first side or in the second.           *)
(***************************************************************************)
ReorderedNeverMerged ==
  op.name = "merge" =>
    /\ \A p \in SubPairs :
         Reordered(p[1].model.sub, p[2].model.sub) =>
           /\ ~op.ok
           /\ ~merge(op.self, cx0, p[1], p[2]).ok
           /\ p[1].model.sub[1].name # p[2].model.sub[1].name =>
                merge(op.self, cx0, p[1], p[2]) = Aborted(cx0)
    /\ op.ok =>
         LET A == SlotsA
             B == SlotsB
             R == SlotsR
         IN  /\ Len(B) = Len(A)
             /\ Len(R) = Len(A)
             /\ \A i \in 1..Len(R) :
                  has_value(R[i].slot) =>
                    \/ A[i].path = R[i].path /\ A[i].slot.value = R[i].slot.value
                    \/ B[i].path = R[i].path /\ B[i].slot.value = R[i].slot.value

\* A merge has aborted on two instances whose nested schemas bear the same
\* names in different orders, the second with a value in a nested slot
ReorderedFilledAborted ==
  /\ op.name = "merge"
  /\ ~op.ok
  /\ \E p \in SubPairs :
       /\ Reordered(p[1].model.sub, p[2].model.sub)
       /\ \E i \in 1..Len(p[2].model.sub) : has_value(SlotOf(p[2].model.sub[i]))

RECURSIVE Leaves(_)
\* The nodes of a list that are not lists, those of its nested lists included
Leaves(items) ==
  IF items = << >> THEN {}
  ELSE (IF Head(items).node.tag = "MetaList" THEN Leaves(Head(items).node.list)
        ELSE {Head(items)}) \cup Leaves(Tail(items))

\* In every slot of the schema the span is the dummy span exactly when the
\* slot holds no value
SpanIffValue(schema) ==
  LET slots == SlotsOf(schema) IN
  \A i \in 1..Len(slots) : (slots[i].slot.span = DUMMY_SP) <=> ~has_value(slots[i].slot)

====
